---- MODULE Spec2Model ----
(***************************************************************************)
(* Model of the Taplytics -> DevCycle import tool.                         *)
(*                                                                         *)
(*   SpecMerge : main()'s record filter and merge loops (src/main.go).     *)
(*   Spec      : a whole run of main(): reading its file, filtering and    *)
(*               merging the records, newDevCycleAPI, devcycleAPI.         *)
(*               importFeaturesToDevCycle and everything it calls          *)
(*               (src/devcycle.go), against a destination that answers     *)
(*               every request with a status and a body of its own         *)
(*               choosing, and the exit of the process.                    *)
(*   SpecRerun : the same, with the tool started again when a run is over. *)
(*   SpecKey   : toKey applied to a name and to the key it returned.       *)
(*   SpecFilter: convertTLFiltersToDevCycleTargeting applied to a filter.  *)
(*                                                                         *)
(* Go strings are sequences of one-character strings, so that the string   *)
(* functions of the code (strings.Split, strings.ToLower, toKey, the       *)
(* version patch) are computed and not assumed.                            *)
(***************************************************************************)
EXTENDS Integers, Sequences, FiniteSets, TLC

VARIABLES
    \* ---- toKey applied to a name (src/taplytics.go) ----
    tkName,           \* the name given to toKey
    tkKey,            \* toKey(tkName)
    tkAgain,          \* toKey(tkKey)
    tkPc,             \* "name", "key", "again", "idle"
    \* ---- convertTLFiltersToDevCycleTargeting applied to a filter ----
    tlFilter,         \* the TLFilter given to the function
    dvcTargeting,     \* the map it returned
    cfPc,             \* "filter", "converted", "idle"
    \* ---- main(): filter and merge (src/main.go) ----
    records,          \* tlImport.Records
    cleanedTLImport,  \* records that passed the zero-variable filter
    merged,           \* main's mergedFeatures map
    mpc,              \* position of main: "filter", "merge", "done", "idle"
    midx,             \* index of the next record of the running loop
    \* ---- the import run (src/main.go, src/devcycle.go) ----
    file,             \* the file named by os.Args[1]
    osEnv,            \* the environment variables newDevCycleAPI reads
    exitStatus,       \* exit status of the process, once pc = "exited"
    stdout,           \* the set of lines written to standard output
    input,            \* mergedFeatures as main built it from the file
    features,         \* the in-memory merged features (slices are shared)
    pc,               \* position of the import run
    customData,       \* customDataProps map of the run
    existingProps,    \* property keys the list call returned
    propTodo,         \* keys the creation loop has not visited yet
    reconciled,       \* checkAndCreateCustomProperties returned nil
    todo,             \* feature names the import loop has not visited yet
    cur,              \* feature createDevCycleFeature is working on
    posts,            \* POSTs the destination has received for cur
    variationIdMap,   \* key -> id parsed from the 201 response of cur
    envs,             \* environments still to PATCH for cur
    results,          \* feature name -> what createDevCycleFeature returned
    calls,            \* remote calls of this run, in order
    err,              \* error returned by importFeaturesToDevCycle
    dvcProps,         \* destination: stored custom properties
    run,              \* number of the current run
    prevReconciled    \* an earlier run's reconciliation returned nil

mergeVars  == <<records, cleanedTLImport, merged, mpc, midx>>
importVars == <<input, features, pc, customData, existingProps, propTodo,
                reconciled, todo, cur, posts, variationIdMap, envs, results,
                calls, err, dvcProps, run, prevReconciled,
                file, osEnv, exitStatus, stdout>>
keyVars    == <<tkName, tkKey, tkAgain, tkPc>>
filterVars == <<tlFilter, dvcTargeting, cfPc>>
vars == <<keyVars, filterVars, mergeVars, importVars>>

-----------------------------------------------------------------------------
(* Bounds of the model *)

MaxRecords == 3     \* length of tlImport.Records
MaxPosts == 3       \* POSTs of one feature by which the destination has
                    \* stopped answering 5xx
MaxRuns == 2        \* runs of the tool against the same destination

-----------------------------------------------------------------------------
(* Strings *)

LowerLetters == <<"a","b","c","d","e","f","g","h","i","j","k","l","m",
                  "n","o","p","q","r","s","t","u","v","w","x","y","z">>
UpperLetters == <<"A","B","C","D","E","F","G","H","I","J","K","L","M",
                  "N","O","P","Q","R","S","T","U","V","W","X","Y","Z">>
Digits == {"0","1","2","3","4","5","6","7","8","9"}

Range(s) == {s[i] : i \in DOMAIN s}

LowerSet == Range(LowerLetters)
UpperSet == Range(UpperLetters)
LowerOf == [c \in UpperSet |->
              LowerLetters[CHOOSE i \in DOMAIN UpperLetters : UpperLetters[i] = c]]

\* "" stands for the rune 0 and is in no class
isLower(c) == c \in LowerSet
isUpper(c) == c \in UpperSet
isDigit(c) == c \in Digits
isSpace(c) == c = " "

toLowerRune(c) == IF isUpper(c) THEN LowerOf[c] ELSE c

\* strings.ToLower
ToLower(s) == [i \in DOMAIN s |-> toLowerRune(s[i])]

\* strings.Split(s, sep) for a one-character separator
RECURSIVE SplitFrom(_, _, _, _)
SplitFrom(s, sep, i, acc) ==
    IF i > Len(s) THEN <<acc>>
    ELSE IF s[i] = sep THEN <<acc>> \o SplitFrom(s, sep, i + 1, <<>>)
    ELSE SplitFrom(s, sep, i + 1, Append(acc, s[i]))

Split(s, sep) == SplitFrom(s, sep, 1, <<>>)

\* strings.Join(parts, sep)
RECURSIVE Join(_, _)
Join(parts, sep) ==
    IF Len(parts) = 0 THEN <<>>
    ELSE IF Len(parts) = 1 THEN parts[1]
    ELSE parts[1] \o sep \o Join(Tail(parts), sep)

\* strings.TrimSpace
RECURSIVE TrimLeft(_)
TrimLeft(s) == IF s # <<>> /\ isSpace(Head(s)) THEN TrimLeft(Tail(s)) ELSE s

RECURSIVE TrimRight(_)
TrimRight(s) ==
    IF s # <<>> /\ isSpace(s[Len(s)]) THEN TrimRight(SubSeq(s, 1, Len(s) - 1))
    ELSE s

TrimSpace(s) == TrimRight(TrimLeft(s))

\* strcase's default split function: what the rune curr does to the word
\* being read, given its neighbours ("" stands for the rune 0 at the ends)
defaultSplitFn(prev, curr, next) ==
    IF isLower(curr) THEN "Noop"
    ELSE IF curr = "_" \/ curr = "-" \/ isSpace(curr) THEN "SkipSplit"
    ELSE IF isUpper(curr) /\ isLower(prev) THEN "Split"
    ELSE IF isUpper(curr) /\ isUpper(prev) /\ isLower(next) THEN "Split"
    ELSE IF isDigit(prev) /\ (curr = "." \/ curr = ",") /\ isDigit(next)
         THEN "Noop"
    ELSE IF curr = "." THEN "SkipSplit"
    ELSE "Noop"

RECURSIVE KebabFrom(_, _, _, _)
KebabFrom(r, i, inWord, out) ==
    IF i > Len(r) THEN out
    ELSE LET prev == IF i = 1 THEN "" ELSE r[i - 1]
             curr == r[i]
             next == IF i = Len(r) THEN "" ELSE r[i + 1]
             act  == defaultSplitFn(prev, curr, next)
             sep  == IF inWord THEN <<"-">> ELSE <<>>
         IN IF act = "SkipSplit"
            THEN KebabFrom(r, i + 1, FALSE, out \o sep)
            ELSE KebabFrom(r, i + 1, TRUE,
                           (IF act = "Split" THEN out \o sep ELSE out)
                               \o <<toLowerRune(curr)>>)

\* strcase.ToKebab: lower-case words joined by "-"
ToKebab(s) == KebabFrom(TrimSpace(s), 1, FALSE, <<>>)

\* taplytics.go:139-144  the runes toKey keeps
KeyRune(c) == isLower(c) \/ isUpper(c) \/ isDigit(c)
              \/ c = "_" \/ c = "-" \/ c = "."

\* toKey joining the sections with the "." it split them on
toKeyJoinDot(name) ==
    LET sections == Split(name, ".")
        modifiedSections == [i \in DOMAIN sections |-> ToKebab(sections[i])]
        key == Join(modifiedSections, <<".">>)
    IN SelectSeq(key, KeyRune)
\* taplytics.go:131-146
toKey(name) ==
    LET sections == Split(name, ".")
        modifiedSections == [i \in DOMAIN sections |-> ToKebab(sections[i])]
        key == Join(modifiedSections, <<"_">>)
    IN SelectSeq(key, KeyRune)

S_string  == <<"s","t","r","i","n","g">>
S_number  == <<"n","u","m","b","e","r">>
S_boolean == <<"b","o","o","l","e","a","n">>
S_json    == <<"j","s","o","n">>

\* taplytics.go:148-161
convertTaplyticsVarTypeToDevCycle(tlType) ==
    LET t == ToLower(tlType)
    IN IF t = S_string THEN "String"
       ELSE IF t = S_number THEN "Number"
       ELSE IF t = S_boolean THEN "Boolean"
       ELSE IF t = S_json THEN "JSON"
       ELSE "String"

-----------------------------------------------------------------------------
(* main(): filter and merge *)

VarA == [Name |-> <<"a">>, Type |-> S_string]
VarB == [Name |-> <<"b">>, Type |-> S_boolean]
VarLists == {<<>>, <<VarA>>, <<VarB>>, <<VarA, VarB>>}
MergeNames == {<<"f">>, <<"g">>}

ImportRecords == [FeatureName : MergeNames, Variables : VarLists]

RecordLists == UNION {[1..n -> ImportRecords] : n \in 0..MaxRecords}

\* main.go:60  a record without variables is left out of the merge
KeepRecordNoFilter(feature) == TRUE
KeepRecord(feature) == Len(feature.Variables) # 0

\* main.go:68-76  one iteration of the merge loop: the map after `feature`
MergeRecord(m, feature) ==
    IF feature.FeatureName \notin DOMAIN m
    THEN m @@ (feature.FeatureName :> feature)
    ELSE IF m[feature.FeatureName].FeatureName # feature.FeatureName
         THEN [m EXCEPT ![feature.FeatureName].Variables =
                            @ \o feature.Variables]
         ELSE m

\* main.go:57-77 as a function of the record list
RECURSIVE MergeAll(_, _)
MergeAll(m, recs) ==
    IF recs = <<>> THEN m
    ELSE MergeAll(IF KeepRecord(Head(recs)) THEN MergeRecord(m, Head(recs))
                  ELSE m,
                  Tail(recs))

EmptyMap == [x \in {} |-> x]

\* The file main() is started on: whether os.ReadFile and json.Unmarshal
\* fail on it, and the fields of TLImportFormat (taplytics.go:13-17)
File(tlProject, recs) ==
    [readErr |-> FALSE, parseErr |-> FALSE, TLProject |-> tlProject,
     DVCProject |-> <<"d","v","c">>, Records |-> recs]
FileUnreadable == [File(<<>>, <<>>) EXCEPT !.readErr = TRUE]
FileMalformed  == [File(<<>>, <<>>) EXCEPT !.parseErr = TRUE]

\* The environment of the process: the variables newDevCycleAPI reads
\* (devcycle.go:99-105); <<>> is a variable that is not set
OsEnv(token, id, secret) ==
    [DEVCYCLE_API_TOKEN |-> token, DEVCYCLE_CLIENT_ID |-> id,
     DEVCYCLE_CLIENT_SECRET |-> secret]
EnvToken  == OsEnv(<<"t">>, <<>>, <<>>)
EnvClient == OsEnv(<<>>, <<"i">>, <<"s">>)
EnvNone   == OsEnv(<<>>, <<>>, <<>>)

KeyIdle == tkName = <<>> /\ tkKey = <<>> /\ tkAgain = <<>> /\ tkPc = "idle"

FilterIdle ==
    /\ tlFilter = [Operator |-> "", Filters |-> <<>>]
    /\ dvcTargeting = [operator |-> "", filters |-> <<>>]
    /\ cfPc = "idle"

ImportIdle ==
    /\ input = EmptyMap /\ features = EmptyMap /\ pc = "idle"
    /\ customData = EmptyMap /\ existingProps = {} /\ propTodo = {}
    /\ reconciled = FALSE /\ todo = {} /\ cur = <<>> /\ posts = 0
    /\ variationIdMap = EmptyMap /\ envs = <<>> /\ results = EmptyMap
    /\ calls = <<>>
    /\ err = "none" /\ dvcProps = {} /\ run = 0
    /\ prevReconciled = FALSE
    /\ file = FileUnreadable /\ osEnv = EnvNone
    /\ exitStatus = 0 /\ stdout = {}

InitMerge ==
    /\ records \in RecordLists
    /\ cleanedTLImport = <<>>
    /\ merged = EmptyMap
    /\ mpc = "filter"
    /\ midx = 1
    /\ ImportIdle
    /\ KeyIdle
    /\ FilterIdle

\* main.go:59-64  one iteration of the filter loop
MainFilter ==
    /\ mpc = "filter"
    /\ midx <= Len(records)
    /\ cleanedTLImport' = IF KeepRecord(records[midx])
                          THEN Append(cleanedTLImport, records[midx])
                          ELSE cleanedTLImport
    /\ midx' = midx + 1
    /\ UNCHANGED <<records, merged, mpc, importVars, keyVars, filterVars>>

\* main.go:66  the filter loop is over, the merge loop starts
MainFilterDone ==
    /\ mpc = "filter"
    /\ midx > Len(records)
    /\ mpc' = "merge"
    /\ midx' = 1
    /\ UNCHANGED <<records, cleanedTLImport, merged, importVars, keyVars, filterVars>>

\* main.go:67-77  one iteration of the merge loop
MainMerge ==
    /\ mpc = "merge"
    /\ midx <= Len(cleanedTLImport)
    /\ merged' = MergeRecord(merged, cleanedTLImport[midx])
    /\ midx' = midx + 1
    /\ UNCHANGED <<records, cleanedTLImport, mpc, importVars, keyVars, filterVars>>

\* main.go:79  the merge loop is over
MainMergeDone ==
    /\ mpc = "merge"
    /\ midx > Len(cleanedTLImport)
    /\ mpc' = "done"
    /\ UNCHANGED <<records, cleanedTLImport, merged, midx, importVars, keyVars, filterVars>>

NextMerge == MainFilter \/ MainFilterDone \/ MainMerge \/ MainMergeDone

SpecMerge == InitMerge /\ [][NextMerge]_vars

-----------------------------------------------------------------------------
(* The import run: data *)

Str(s) == [kind |-> "string", s |-> s]     \* a JSON string value
Num(n) == [kind |-> "number", n |-> n]     \* a JSON number value

N_On   == <<"O","n">>
N_Off  == <<"O","f","f">>
K_plan == <<"p","l","a","n">>
K_Plan == <<"P","l","a","n">>
K_tier == <<"t","i","e","r">>

FilterItem(subType, values, dataKey, dataKeyType) ==
    [Type |-> "user", Comparator |-> "=", Values |-> values,
     SubType |-> subType, DataKey |-> dataKey, DataKeyType |-> dataKeyType]

Audience(items) ==
    [Name |-> <<"a","u","d">>, Filters |-> [Operator |-> "and", Filters |-> items]]

VariationOn ==
    [Name |-> N_On,
     Variables |-> <<[Name |-> <<"a">>, Type |-> S_string, Value |-> Str(<<"x">>)],
                     [Name |-> <<"b","C">>, Type |-> S_boolean, Value |-> Num(1)]>>,
     Distribution |-> 70]
\* "a" again with another type, and "b-c", whose key is that of "bC"
VariationOff ==
    [Name |-> N_Off,
     Variables |-> <<[Name |-> <<"a">>, Type |-> S_number, Value |-> Num(2)],
                     [Name |-> <<"b","-","c">>, Type |-> S_number, Value |-> Num(0)]>>,
     Distribution |-> 30]
\* a variation that says nothing about "bC"
VariationAlt ==
    [Name |-> <<"A","l","t">>,
     Variables |-> <<[Name |-> <<"a">>, Type |-> S_string, Value |-> Str(<<"z">>)]>>,
     Distribution |-> 0]

V_1_2   == Str(<<"1",".","2">>)
V_1_2_3 == Str(<<"1",".","2",".","3">>)
V_12    == Str(<<"1","2">>)
V_a_b   == Str(<<"a",".","b">>)
V_1_    == Str(<<"1",".">>)

\* A record of the file.  It has the fields of TLImportRecord
\* (taplytics.go:35-42), the field Variables that main reads (main.go:60, 73)
\* and the field Audience that createDevCycleFeature, createTargetingRule and
\* the discovery loop read (devcycle.go:277, 295, 312, 337).  Percentages are
\* in hundredths.
Record(variables, variations, items, distribution) ==
    [ID |-> <<"i","d">>,
     Variables |-> variables,
     Variations |-> variations,
     Tags |-> <<>>,
     Targets |-> <<[Name |-> <<"t">>, Audience |-> Audience(items),
                    Distribution |-> distribution]>>,
     Audience |-> Audience(items),
     Distribution |-> distribution]

RecordPlain ==
    Record(<<VarA>>, <<VariationOn>>, <<>>, <<[Name |-> N_On, Percentage |-> 100]>>)

\* The records a file is made of; FeatureName is filled in by Named.
FeaturePool ==
    { \* a record main's filter leaves out
      Record(<<>>, <<VariationOn>>, <<>>, <<[Name |-> N_On, Percentage |-> 100]>>),
      \* no variations at all, but a targeted audience
      Record(<<VarA>>, <<>>,
             <<FilterItem("customData", <<Num(1)>>, K_tier, "Number")>>,
             <<>>),
      \* variables, no audience filters
      RecordPlain,
      \* version filter and a custom property
      Record(<<VarA>>, <<VariationOn, VariationOff>>,
             <<FilterItem("appVersion", <<V_1_2, V_1_2_3>>, <<>>, ""),
               FilterItem("customData", <<Num(1)>>, K_plan, "Number")>>,
             <<[Name |-> N_On, Percentage |-> 70],
               [Name |-> N_Off, Percentage |-> 30]>>),
      \* version filter with values that are no versions, upper-case key
      Record(<<VarA>>, <<VariationOn, VariationAlt>>,
             <<FilterItem("platformVersion", <<V_a_b, Num(7), V_12, V_1_>>, <<>>, ""),
               FilterItem("customData", <<Str(<<"x">>)>>, K_Plan, "Boolean")>>,
             <<[Name |-> N_On, Percentage |-> 100]>>),
      \* a custom property without a key, a key declared with another type,
      \* a pass-through sub-type
      Record(<<VarA>>, <<VariationOff>>,
             <<FilterItem("customData", <<Num(2)>>, <<>>, "String"),
               FilterItem("customData", <<Num(2)>>, K_plan, "Weird"),
               FilterItem("platform", <<Str(<<"i","o","s">>)>>, <<>>, "")>>,
             <<[Name |-> N_Off, Percentage |-> 90]>>) }

N_fA == <<"f","A">>
N_gx == <<"g",".","x">>

Named(n) == {[FeatureName |-> n] @@ r : r \in FeaturePool}

\* tlImport.Records of the files a run is started on: no record, one record,
\* two records with different names, two records with the same name
ImportRecordLists ==
    {<<>>}
        \cup {<<r>> : r \in Named(N_fA) \cup Named(N_gx)}
        \cup {<<r1, r2>> : r1 \in Named(N_fA), r2 \in Named(N_gx)}
        \cup {<<r, [FeatureName |-> N_gx] @@ RecordPlain>> :
                    r \in Named(N_gx) \ {[FeatureName |-> N_gx] @@ RecordPlain}}

\* files without tl_project, files that pass the checks of main
FilesNoProject == {File(<<>>, recs) : recs \in {<<>>} \cup {<<r>> : r \in Named(N_fA)}}
FilesOK == {File(<<"t","l">>, recs) : recs \in ImportRecordLists}
ImportFiles == {FileUnreadable, FileMalformed} \cup FilesNoProject \cup FilesOK

OsEnvs == {EnvToken, EnvClient, EnvNone}

\* the environments a run on file f is started in: every file is run with
\* DEVCYCLE_API_TOKEN set, the files of at most one record also without it
StartEnvs(f) == IF Len(f.Records) <= 1 THEN OsEnvs ELSE {EnvToken}

\* a line of standard output: its fixed text and the value printed with it
Line(text, arg) == [text |-> text, arg |-> arg]

\* custom properties the destination may hold before the first run
PropRecord(key, type) ==
    [key |-> ToLower(key), propertyKey |-> key, name |-> key, type |-> type]

InitialProps == SUBSET {PropRecord(K_plan, "Number"), PropRecord(K_tier, "String")}

\* devcycle.go:278  the environments a targeting rule is created in
EnvironmentsNoProduction == <<"development", "staging">>
Environments == <<"development", "staging", "production">>

-----------------------------------------------------------------------------
(* The import run: the functions of devcycle.go *)

FiltersOf(tlFeature) == tlFeature.Audience.Filters.Filters

\* taplytics.go:21-23  the filter items of all targets of all records, in
\* the order of the three loops
RECURSIVE TargetItems(_)
TargetItems(targets) ==
    IF targets = <<>> THEN <<>>
    ELSE Head(targets).Audience.Filters.Filters \o TargetItems(Tail(targets))
RECURSIVE RecordItems(_)
RecordItems(recs) ==
    IF recs = <<>> THEN <<>>
    ELSE TargetItems(Head(recs).Targets) \o RecordItems(Tail(recs))

\* taplytics.go:24-28  the first type met for a key is kept
RECURSIVE FirstTypes(_, _)
FirstTypes(cd, items) ==
    IF items = <<>> THEN cd
    ELSE LET aud == Head(items)
         IN FirstTypes(IF /\ aud.SubType = "customData"
                          /\ aud.DataKey # <<>>
                          /\ aud.DataKey \notin DOMAIN cd
                       THEN cd @@ (aud.DataKey :> aud.DataKeyType)
                       ELSE cd,
                       Tail(items))

\* taplytics.go:19-33
GetCustomDataProperties(recs) == FirstTypes(EmptyMap, RecordItems(recs))

\* devcycle.go:336-341  the customDataProps the discovery loop builds when
\* it visits the features in the given order (the last write of a key wins)
RECURSIVE DiscoverItems(_, _)
DiscoverItems(cd, items) ==
    IF items = <<>> THEN cd
    ELSE LET f == Head(items)
         IN DiscoverItems(IF f.SubType = "customData"
                          THEN (f.DataKey :> f.DataKeyType) @@ cd
                          ELSE cd,
                          Tail(items))

RECURSIVE Discover(_, _, _)
Discover(cd, fs, order) ==
    IF order = <<>> THEN cd
    ELSE Discover(DiscoverItems(cd, FiltersOf(fs[Head(order)])), fs, Tail(order))

Orders(S) == {o \in [1..Cardinality(S) -> S] : Range(o) = S}

\* devcycle.go:152-156  the keys getExistingCustomProperties returns
ExistingByKey(response) == {p.key : p \in response}
ExistingKeys(response) == {p.propertyKey : p \in response}

\* devcycle.go:364-369  customData once the listed properties are deleted
ReconcileNoDelete(cd, existing) == cd
Reconcile(cd, existing) == [k \in DOMAIN cd \ existing |-> cd[k]]

\* devcycle.go:160-174  the payload of createCustomProperty
CustomPropertyPayload(key, dataType) ==
    [name |-> key, propertyKey |-> key, key |-> ToLower(key),
     type |-> IF dataType \in {"Boolean", "Number", "JSON"} THEN dataType
              ELSE "String"]

\* all the variables of all the variations, in the order of the two loops
RECURSIVE AllVariables(_)
AllVariables(variations) ==
    IF variations = <<>> THEN <<>>
    ELSE Head(variations).Variables \o AllVariables(Tail(variations))

\* devcycle.go:203-211  the variables list, deduplicated by variable name
RECURSIVE DedupeVariables(_, _)
DedupeVariables(tlVariables, seen) ==
    IF tlVariables = <<>> THEN <<>>
    ELSE LET v == Head(tlVariables)
         IN IF v.Name \in seen THEN DedupeVariables(Tail(tlVariables), seen)
            ELSE <<[Name |-> v.Name,
                    Key |-> toKey(v.Name),
                    Type |-> convertTaplyticsVarTypeToDevCycle(v.Type),
                    Description |-> <<"Imported from Taplytics: ">> \o v.Name]>>
                 \o DedupeVariables(Tail(tlVariables), seen \cup {v.Name})

\* devcycle.go:200-202  variationValues: the last variable of a key wins
RECURSIVE VariationValues(_)
VariationValues(tlVariables) ==
    IF tlVariables = <<>> THEN EmptyMap
    ELSE LET v == tlVariables[Len(tlVariables)]
         IN (toKey(v.Name) :> v.Value)
            @@ VariationValues(SubSeq(tlVariables, 1, Len(tlVariables) - 1))

\* devcycle.go:191-235  the body of the feature POST
FeaturePayload(tlFeature) ==
    [Name |-> tlFeature.FeatureName,
     Key |-> toKey(tlFeature.FeatureName),
     Description |-> <<"Imported from Taplytics: ">> \o tlFeature.FeatureName,
     Variables |-> DedupeVariables(AllVariables(tlFeature.Variations), {}),
     Variations |-> [i \in DOMAIN tlFeature.Variations |->
                       [Key |-> toKey(tlFeature.Variations[i].Name),
                        Name |-> tlFeature.Variations[i].Name,
                        Variables |-> VariationValues(tlFeature.Variations[i].Variables)]],
     SdkVisibility |-> [Mobile |-> TRUE, Client |-> TRUE, Server |-> TRUE],
     Type |-> "release",
     Tags |-> tlFeature.Tags]

\* devcycle.go:243, 248, 256  how createDevCycleFeature reads the status
IsConflictNever(status) == FALSE
IsConflict(status) == status = 409
IsServerError(status) == status >= 500
IsCreatedAny(status) == TRUE
IsCreated(status) == status = 201

\* devcycle.go:272-275  key -> id of the variations in the 201 response
RECURSIVE VariationIdMap(_)
VariationIdMap(respVariations) ==
    IF respVariations = <<>> THEN EmptyMap
    ELSE LET v == respVariations[Len(respVariations)]
         IN (v.key :> v.id)
            @@ VariationIdMap(SubSeq(respVariations, 1, Len(respVariations) - 1))

\* taplytics.go:49-54
ToAPIDistribution(d) == [variation |-> toKey(d.Name), percentage |-> d.Percentage]

\* devcycle.go:301-306  one value of a version filter after the loop body
PatchVersion(v) ==
    IF v.kind = "string"
    THEN IF Len(Split(v.s, ".")) = 2 THEN Str(v.s \o <<".", "0">>) ELSE v
    ELSE v

\* devcycle.go:295-309  the filter items after the loop: the values of the
\* version sub-types are rewritten in the slice the record shares
PatchFilters(items) ==
    [i \in DOMAIN items |->
        IF items[i].SubType \in {"platformVersion", "appVersion"}
        THEN [items[i] EXCEPT !.Values =
                 [j \in DOMAIN items[i].Values |-> PatchVersion(items[i].Values[j])]]
        ELSE items[i]]

\* devcycle.go:290-319  the body of the PATCH, built from the patched record
TargetingPayload(tlFeature) ==
    [targets |-> <<[audience |-> tlFeature.Audience,
                    distribution |-> [i \in DOMAIN tlFeature.Distribution |->
                                          ToAPIDistribution(tlFeature.Distribution[i])]]>>,
     status |-> "active"]

-----------------------------------------------------------------------------
(* The import run: the destination *)

\* what the destination may answer; 0 stands for a request that failed
\* without a response (doRequest returned an error)
OAuthStatuses  == {200, 500}
ListStatuses   == {200, 500, 0}
CreateStatuses == {201, 500}
PostStatuses   == {201, 409, 500, 400, 0}
\* what the destination may answer to a POST of a feature it has received n
\* POSTs of: its 5xx failures are transient, the MaxPosts-th POST of a
\* feature is not answered 5xx
PostAnswers(n) ==
    IF n + 1 < MaxPosts THEN PostStatuses
    ELSE {status \in PostStatuses : status < 500}
PatchStatuses  == {200, 500}

DigitSeq == <<"0","1","2","3","4","5","6","7","8","9">>

RECURSIVE Decimal(_)
Decimal(n) ==
    IF n < 10 THEN <<DigitSeq[n + 1]>>
    ELSE Decimal(n \div 10) \o <<DigitSeq[(n % 10) + 1]>>

\* an opaque id of the destination, fresh for every object it creates: the
\* i-th object of the answer to the callNo-th request of run r ("#" is no
\* rune of a key)
MkId(r, callNo, i) ==
    <<"#">> \o Decimal(r) \o <<"/">> \o Decimal(callNo) \o <<"/">> \o Decimal(i)

\* the variations of a 201 response: the destination gives every
\* variation of the payload an id
ResponseVariations(payload, r, callNo) ==
    [i \in DOMAIN payload.Variations |->
        [id |-> MkId(r, callNo, i), key |-> payload.Variations[i].Key]]

-----------------------------------------------------------------------------
(* The import run: importFeaturesToDevCycle *)

MergeIdle ==
    /\ records = <<>> /\ cleanedTLImport = <<>> /\ merged = EmptyMap
    /\ mpc = "idle" /\ midx = 0

Init ==
    /\ KeyIdle
    /\ FilterIdle
    /\ MergeIdle
    /\ file \in ImportFiles
    /\ osEnv \in StartEnvs(file)
    /\ input = EmptyMap
    /\ features = EmptyMap
    /\ pc = "main"
    /\ exitStatus = 0
    /\ stdout = {}
    /\ customData = EmptyMap /\ existingProps = {} /\ propTodo = {}
    /\ reconciled = FALSE /\ todo = {} /\ cur = <<>> /\ posts = 0
    /\ variationIdMap = EmptyMap /\ envs = <<>> /\ results = EmptyMap
    /\ calls = <<>> /\ err = "none"
    /\ dvcProps \in InitialProps
    /\ run = 1
    /\ prevReconciled = FALSE

\* devcycle.go:97-113  newDevCycleAPI: the lines it prints
NewAPILines ==
    IF osEnv.DEVCYCLE_API_TOKEN = <<>>
    THEN {Line("DEVCYCLE_API_TOKEN environment variable is not set", <<>>)}
    ELSE {}

\* devcycle.go:99-103  newDevCycleAPI asks for an OAuth token
NeedsOAuthToken ==
    /\ osEnv.DEVCYCLE_API_TOKEN = <<>>
    /\ osEnv.DEVCYCLE_CLIENT_ID # <<>>
    /\ osEnv.DEVCYCLE_CLIENT_SECRET # <<>>

\* main.go:36-83  main() reads and checks its file, filters and merges the
\* records (57-77, the loops SpecMerge takes step by step), builds the API
\* client (79, with GetDevCycleOAuthToken, devcycle.go:55-95, whose error is
\* dropped) and prints what it is about to import
MainRead ==
    /\ pc = "main"
    /\ IF file.readErr
       THEN /\ stdout' = stdout \cup {Line("Error reading file:", <<>>)}
            /\ pc' = "exited"
            /\ UNCHANGED <<input, features, calls>>
       ELSE IF file.parseErr
       THEN /\ stdout' = stdout \cup {Line("Error parsing file:", <<>>)}
            /\ pc' = "exited"
            /\ UNCHANGED <<input, features, calls>>
       ELSE IF file.TLProject = <<>>
       THEN /\ stdout' = stdout \cup {Line("TLProject is required", <<>>)}
            /\ pc' = "exited"
            /\ UNCHANGED <<input, features, calls>>
       ELSE LET mergedFeatures == MergeAll(EmptyMap, file.Records)
            IN /\ input' = mergedFeatures
               /\ features' = mergedFeatures
               /\ IF NeedsOAuthToken
                  THEN \E status \in OAuthStatuses :
                          calls' = Append(calls, [op |-> "oauthToken",
                                                  status |-> status])
                  ELSE calls' = calls
               /\ stdout' = stdout \cup NewAPILines \cup
                     {Line("Importing", Cardinality(DOMAIN mergedFeatures)),
                      Line("DevCycle Project:", file.DVCProject),
                      Line("CustomData Properties:",
                           GetCustomDataProperties(file.Records))}
               /\ pc' = "start"
    /\ UNCHANGED <<keyVars, filterVars, mergeVars, osEnv, customData,
                   existingProps, propTodo, reconciled, todo, cur, posts,
                   variationIdMap, envs, results, err, dvcProps, run,
                   prevReconciled, file, exitStatus>>

\* main.go:86-91  importFeaturesToDevCycle has returned
MainExit ==
    /\ pc = "done"
    /\ IF err # "none"
       THEN /\ stdout' = stdout \cup {Line("Error importing features:", err)}
            /\ exitStatus' = 1
       ELSE /\ stdout' = stdout \cup {Line("Import completed successfully!", <<>>)}
            /\ exitStatus' = 0
    /\ pc' = "exited"
    /\ UNCHANGED <<keyVars, filterVars, mergeVars, osEnv, input, features, customData,
                   existingProps, propTodo, reconciled, todo, cur, posts,
                   variationIdMap, envs, results, calls, err, dvcProps, run,
                   prevReconciled, file>>

\* devcycle.go:335-342  the discovery loop, in some iteration order of the map
DiscoverCustomData ==
    /\ pc = "start"
    /\ \E order \in Orders(DOMAIN features) :
          customData' = Discover(EmptyMap, features, order)
    /\ pc' = "list"
    /\ UNCHANGED <<keyVars, filterVars, mergeVars, osEnv, input, features, existingProps, propTodo,
                   reconciled, todo, cur, posts, variationIdMap, envs, results,
                   calls, err, dvcProps, run, prevReconciled,
                   file, exitStatus, stdout>>

\* devcycle.go:359-369 with getExistingCustomProperties (133-157)
ListCustomProperties ==
    /\ pc = "list"
    /\ \E status \in ListStatuses :
       \E decodes \in IF status = 200 THEN BOOLEAN ELSE {FALSE} :
          /\ calls' = Append(calls, [op |-> "listProps", status |-> status,
                                     decodes |-> decodes])
          /\ IF status = 200 /\ decodes
             THEN /\ existingProps' = ExistingKeys(dvcProps)
                  /\ customData' = Reconcile(customData, ExistingKeys(dvcProps))
                  /\ propTodo' = DOMAIN customData'
                  /\ stdout' = stdout \cup
                        {Line("Found existing custom property - skipping:", k) :
                            k \in ExistingKeys(dvcProps) \cap DOMAIN customData}
                  /\ pc' = "create"
                  /\ err' = err
             ELSE /\ err' = "failed to set up custom properties"
                  /\ pc' = "done"
                  /\ UNCHANGED <<existingProps, customData, propTodo, stdout>>
    /\ UNCHANGED <<keyVars, filterVars, mergeVars, osEnv, input, features, reconciled, todo, cur, posts,
                   variationIdMap, envs, results, dvcProps, run,
                   prevReconciled, file, exitStatus>>

\* devcycle.go:370-378 with createCustomProperty (159-186): one iteration
CreateCustomProperty ==
    /\ pc = "create"
    /\ \E key \in propTodo :
          /\ propTodo' = propTodo \ {key}
          /\ IF key = <<>>
             THEN UNCHANGED <<calls, dvcProps, err, pc, stdout>>
             ELSE \E status \in CreateStatuses :
                     LET payload == CustomPropertyPayload(key, customData[key])
                     IN /\ calls' = Append(calls, [op |-> "createProp",
                                                   key |-> key,
                                                   payload |-> payload,
                                                   status |-> status])
                        /\ IF status = 201
                           THEN /\ dvcProps' = dvcProps \cup {payload}
                                /\ stdout' = stdout \cup
                                      {Line("Created custom property:", key)}
                                /\ UNCHANGED <<err, pc>>
                           ELSE /\ err' = "failed to set up custom properties"
                                /\ pc' = "done"
                                /\ UNCHANGED <<dvcProps, stdout>>
    /\ UNCHANGED <<keyVars, filterVars, mergeVars, osEnv, input, features, customData, existingProps,
                   reconciled, todo, cur, posts, variationIdMap, envs, results,
                   run, prevReconciled, file, exitStatus>>

\* devcycle.go:379, 344-349  the creation loop is over, the feature loop starts
ReconcileDone ==
    /\ pc = "create"
    /\ propTodo = {}
    /\ reconciled' = TRUE
    /\ todo' = DOMAIN features
    /\ pc' = "features"
    /\ UNCHANGED <<keyVars, filterVars, mergeVars, osEnv, input, features, customData, existingProps,
                   propTodo, cur, posts, variationIdMap, envs, results, calls,
                   err, dvcProps, run, prevReconciled,
                   file, exitStatus, stdout>>

\* devcycle.go:349-350  the feature loop takes some feature of the map
BeginFeature ==
    /\ pc = "features"
    /\ \E n \in todo :
          /\ todo' = todo \ {n}
          /\ cur' = n
    /\ posts' = 0
    /\ variationIdMap' = EmptyMap
    /\ pc' = "feature"
    /\ UNCHANGED <<keyVars, filterVars, mergeVars, osEnv, input, features, customData, existingProps,
                   propTodo, reconciled, envs, results, calls, err, dvcProps,
                   run, prevReconciled,
                   file, exitStatus, stdout>>

\* createDevCycleFeature returns r to the feature loop (devcycle.go:350-353),
\* having printed `lines`; the loop goes on to the next feature
ReturnFromFeatureContinue(r, lines) ==
    /\ results' = (cur :> r) @@ results
    /\ pc' = "features"
    /\ IF r = "nil"
       THEN /\ err' = err
            /\ stdout' = stdout \cup lines \cup {Line("Imported feature:", cur)}
       ELSE /\ err' = "failed to import feature"
            /\ stdout' = stdout \cup lines
ReturnFromFeature(r, lines) ==
    /\ results' = (cur :> r) @@ results
    /\ IF r = "nil"
       THEN /\ pc' = "features"
            /\ err' = err
            /\ stdout' = stdout \cup lines \cup {Line("Imported feature:", cur)}
       ELSE /\ pc' = "done"
            /\ err' = "failed to import feature"
            /\ stdout' = stdout \cup lines

\* devcycle.go:221  the feature has nothing to create
HasVariablesAlways(variables) == FALSE
HasNoVariables(variables) == Len(variables) = 0

\* devcycle.go:278  the environments the range loop still has to visit once
\* the body has run for the first of them
RestOfEnvironmentsSame(e) == e
RestOfEnvironments(e) == Tail(e)

\* devcycle.go:326  the status createTargetingRule accepts
IsOKAny(status) == TRUE
IsOK(status) == status = 200

\* devcycle.go:190-284  one invocation of createDevCycleFeature, up to its
\* return, the sleep before its recursive call or its first targeting rule
CreateDevCycleFeature ==
    /\ pc = "feature"
    /\ LET tlFeature == features[cur]
           payload == FeaturePayload(tlFeature)
       IN IF HasNoVariables(payload.Variables)
          THEN /\ ReturnFromFeature("nil",
                     {Line("No variables to import for feature:", cur)})
               /\ UNCHANGED <<posts, calls, variationIdMap, envs>>
          ELSE \E status \in PostAnswers(posts) :
               \E decodes \in IF status # 0 /\ ~IsConflict(status)
                                   /\ ~IsServerError(status) /\ IsCreated(status)
                               THEN BOOLEAN ELSE {FALSE} :
                  LET resp == IF decodes
                              THEN ResponseVariations(payload, run, Len(calls) + 1)
                              ELSE <<>>
                  IN /\ posts' = posts + 1
                     /\ calls' = Append(calls,
                            [op |-> "postFeature", feature |-> cur,
                             payload |-> payload, status |-> status,
                             decodes |-> decodes,
                             ids |-> {resp[i].id : i \in DOMAIN resp}])
                     /\ IF status = 0
                        THEN /\ ReturnFromFeature("error", {})
                             /\ UNCHANGED <<variationIdMap, envs>>
                        ELSE IF IsConflict(status)
                        THEN /\ ReturnFromFeature("nil",
                                   {Line("Feature already exists, skipping creation:", cur)})
                             /\ UNCHANGED <<variationIdMap, envs>>
                        ELSE IF IsServerError(status)
                        THEN /\ stdout' = stdout \cup
                                   {Line("API returned 5xx error", status)}
                             /\ pc' = "sleep"
                             /\ UNCHANGED <<err, results, variationIdMap, envs>>
                        ELSE IF ~IsCreated(status)
                        THEN /\ ReturnFromFeature("error", {})
                             /\ UNCHANGED <<variationIdMap, envs>>
                        ELSE IF ~decodes
                        THEN /\ ReturnFromFeature("error", {})
                             /\ UNCHANGED <<variationIdMap, envs>>
                        ELSE /\ variationIdMap' = VariationIdMap(resp)
                             /\ IF Len(FiltersOf(tlFeature)) > 0
                                THEN /\ envs' = Environments
                                     /\ pc' = "patch"
                                     /\ UNCHANGED <<err, results, stdout>>
                                ELSE /\ ReturnFromFeature("nil", {})
                                     /\ envs' = envs
    /\ UNCHANGED <<keyVars, filterVars, mergeVars, osEnv, input, features, customData, existingProps,
                   propTodo, reconciled, todo, cur, dvcProps, run,
                   prevReconciled, file, exitStatus>>

\* devcycle.go:251-253  the three seconds of time.Sleep are over: the retry
\* is announced and createDevCycleFeature calls itself, however many POSTs
\* there have been.
RetryFeatureCreation ==
    /\ pc = "sleep"
    /\ stdout' = stdout \cup {Line("Retrying feature creation...", <<>>)}
    /\ pc' = "feature"
    /\ UNCHANGED <<keyVars, filterVars, mergeVars, osEnv, input, features,
                   customData, existingProps, propTodo, reconciled, todo, cur,
                   posts, variationIdMap, envs, results, calls, err, dvcProps,
                   run, prevReconciled, file, exitStatus>>

\* devcycle.go:278-282 with createTargetingRule (289-331): one environment
CreateTargetingRule ==
    /\ pc = "patch"
    /\ envs # <<>>
    /\ LET patched == [features EXCEPT ![cur].Audience.Filters.Filters =
                                            PatchFilters(@)]
           payload == TargetingPayload(patched[cur])
       IN /\ features' = patched
          /\ \E status \in PatchStatuses :
                /\ calls' = Append(calls,
                       [op |-> "patch", feature |-> cur,
                        featureKey |-> toKey(patched[cur].FeatureName),
                        env |-> Head(envs), payload |-> payload,
                        status |-> status])
                /\ IF IsOK(status)
                   THEN /\ envs' = RestOfEnvironments(envs)
                        /\ IF RestOfEnvironments(envs) = <<>>
                           THEN ReturnFromFeature("nil", {})
                           ELSE UNCHANGED <<pc, err, results, stdout>>
                   ELSE /\ ReturnFromFeature("error", {})
                        /\ envs' = envs
    /\ UNCHANGED <<keyVars, filterVars, mergeVars, osEnv, input, customData, existingProps, propTodo,
                   reconciled, todo, cur, posts, variationIdMap, dvcProps,
                   run, prevReconciled, file, exitStatus>>

\* devcycle.go:356  every feature was visited: the run returns nil
ImportDone ==
    /\ pc = "features"
    /\ todo = {}
    /\ pc' = "done"
    /\ UNCHANGED <<keyVars, filterVars, mergeVars, osEnv, input, features, customData, existingProps,
                   propTodo, reconciled, todo, cur, posts, variationIdMap,
                   envs, results, calls, err, dvcProps, run,
                   prevReconciled,
                   file, exitStatus, stdout>>

\* the tool is started again on the same file, against the same destination
Rerun ==
    /\ pc = "exited"
    /\ run < MaxRuns
    /\ run' = run + 1
    /\ prevReconciled' = reconciled
    /\ input' = EmptyMap
    /\ features' = EmptyMap
    /\ pc' = "main"
    /\ exitStatus' = 0 /\ stdout' = {}
    /\ customData' = EmptyMap /\ existingProps' = {} /\ propTodo' = {}
    /\ reconciled' = FALSE /\ todo' = {} /\ cur' = <<>> /\ posts' = 0
    /\ variationIdMap' = EmptyMap /\ envs' = <<>> /\ results' = EmptyMap
    /\ calls' = <<>> /\ err' = "none"
    /\ UNCHANGED <<keyVars, filterVars, mergeVars, osEnv, dvcProps, file>>

Next ==
    \/ MainRead
    \/ DiscoverCustomData
    \/ ListCustomProperties
    \/ CreateCustomProperty
    \/ ReconcileDone
    \/ BeginFeature
    \/ CreateDevCycleFeature
    \/ RetryFeatureCreation
    \/ CreateTargetingRule
    \/ ImportDone
    \/ MainExit

\* one run of the tool
Spec == Init /\ [][Next]_vars

\* the runs that are repeated: a file that passes the checks of main, with
\* DEVCYCLE_API_TOKEN set
InitRerun ==
    /\ Init
    /\ file \in FilesOK
    /\ osEnv = EnvToken

NextRerun == Next \/ Rerun

\* up to MaxRuns runs of the tool on the same file and destination
SpecRerun == InitRerun /\ [][NextRerun]_vars

-----------------------------------------------------------------------------
(* toKey as a function of its argument *)

MaxNameLen == 3     \* longest name drawn from KeyAlphabet

\* one rune of each class toKey tells apart: lower case, upper case, digit,
\* the section separator, the three delimiters of ToKebab, a rune that
\* KeyRune removes
KeyAlphabet == {"a", "B", "1", ".", "_", "-", " ", "!"}

\* formatting_test.go:8-17  testCases
testCases == {
    [input    |-> <<"e","n","a","b","l","e","D","a","r","k","M","o","d","e","C","o","l","o","r">>,
     expected |-> <<"e","n","a","b","l","e","-","d","a","r","k","-","m","o","d","e","-","c","o","l","o","r">>],
    [input    |-> <<"u","s","e","r","P","r","o","f","i","l","e","P","i","c","t","u","r","e">>,
     expected |-> <<"u","s","e","r","-","p","r","o","f","i","l","e","-","p","i","c","t","u","r","e">>],
    [input    |-> <<"i","s","F","e","a","t","u","r","e","E","n","a","b","l","e","d">>,
     expected |-> <<"i","s","-","f","e","a","t","u","r","e","-","e","n","a","b","l","e","d">>],
    [input    |-> <<"s","u","b","s","c","r","i","p","t","i","o","n",".","v","2",".","t","e","x","t",".","o","v","e","r","w","r","i","t","e">>,
     expected |-> <<"s","u","b","s","c","r","i","p","t","i","o","n","_","v","2","_","t","e","x","t","_","o","v","e","r","w","r","i","t","e">>],
    [input    |-> <<"d","i","s","c","o","v","e","r","y",".","n","e","w","O","r","d","e","r","T","y","p","e","U","i",".","i","o","s">>,
     expected |-> <<"d","i","s","c","o","v","e","r","y","_","n","e","w","-","o","r","d","e","r","-","t","y","p","e","-","u","i","_","i","o","s">>]}

KeyNames ==
    UNION {[1..n -> KeyAlphabet] : n \in 0..MaxNameLen}
        \cup {t.input : t \in testCases}

InitKey ==
    /\ tkName \in KeyNames
    /\ tkKey = <<>>
    /\ tkAgain = <<>>
    /\ tkPc = "name"
    /\ FilterIdle
    /\ MergeIdle
    /\ ImportIdle

\* taplytics.go:131-146  toKey(tkName)
ToKey ==
    /\ tkPc = "name"
    /\ tkKey' = toKey(tkName)
    /\ tkPc' = "key"
    /\ UNCHANGED <<tkName, tkAgain, mergeVars, importVars, filterVars>>

\* taplytics.go:131-146  toKey applied to a key it returned
ToKeyAgain ==
    /\ tkPc = "key"
    /\ tkAgain' = toKey(tkKey)
    /\ tkPc' = "again"
    /\ UNCHANGED <<tkName, tkKey, mergeVars, importVars, filterVars>>

NextKey == ToKey \/ ToKeyAgain

SpecKey == InitKey /\ [][NextKey]_vars

-----------------------------------------------------------------------------
(* convertTLFiltersToDevCycleTargeting as a function of its argument *)

MaxFilterItems == 3     \* longest filter list given to the function

\* taplytics.go:92-124  the loop over tlFilter.Filters: the items appended to
\* result["filters"]; the default branch ends in `continue`, before the append
\* of line 125, and the fixedValues of the appVersion branch are not used
RECURSIVE convertItems(_)
convertItems(items) ==
    IF items = <<>> THEN <<>>
    ELSE LET filter == Head(items)
             rest == convertItems(Tail(items))
         IN IF filter.SubType = "appVersion"
            THEN <<[type |-> "user", subType |-> filter.SubType,
                    comparator |-> filter.Comparator,
                    values |-> filter.Values]>> \o rest
            ELSE IF filter.SubType = "customData"
            THEN <<[type |-> "user", subType |-> "customData",
                    dataKey |-> filter.DataKey,
                    comparator |-> filter.Comparator,
                    values |-> filter.Values]>> \o rest
            ELSE rest

\* taplytics.go:87-129
convertTLFiltersToDevCycleTargeting(f) ==
    [operator |-> f.Operator, filters |-> convertItems(f.Filters)]

\* one item of each sub-type the function tells apart, the pass-through
\* sub-type with two comparators
FilterItemPool ==
    { FilterItem("appVersion", <<V_1_2>>, <<>>, ""),
      FilterItem("customData", <<Num(1)>>, K_plan, "Number"),
      FilterItem("platform", <<Str(<<"i","o","s">>)>>, <<>>, ""),
      [FilterItem("platform", <<Str(<<"w","e","b">>)>>, <<>>, "")
          EXCEPT !.Comparator = "!="] }

TLFilters ==
    [Operator : {"and", "or"},
     Filters : UNION {[1..n -> FilterItemPool] : n \in 0..MaxFilterItems}]

InitFilter ==
    /\ tlFilter \in TLFilters
    /\ dvcTargeting = [operator |-> "", filters |-> <<>>]
    /\ cfPc = "filter"
    /\ KeyIdle
    /\ MergeIdle
    /\ ImportIdle

\* taplytics.go:87-129  convertTLFiltersToDevCycleTargeting(tlFilter)
ConvertFilter ==
    /\ cfPc = "filter"
    /\ dvcTargeting' = convertTLFiltersToDevCycleTargeting(tlFilter)
    /\ cfPc' = "converted"
    /\ UNCHANGED <<tlFilter, keyVars, mergeVars, importVars>>

NextFilter == ConvertFilter

SpecFilter == InitFilter /\ [][NextFilter]_vars

-----------------------------------------------------------------------------
(* Claims about the merge *)

\* the variables of every record named n, in input order
RECURSIVE VariablesOf(_, _)
VariablesOf(recs, n) ==
    IF recs = <<>> THEN <<>>
    ELSE (IF Head(recs).FeatureName = n THEN Head(recs).Variables ELSE <<>>)
         \o VariablesOf(Tail(recs), n)

VarNameSet(rec) == {rec.Variables[i].Name : i \in DOMAIN rec.Variables}

NamesWithVariables(recs) ==
    {recs[i].FeatureName : i \in {j \in DOMAIN recs : Len(recs[j].Variables) # 0}}

PermuteSeq(recs, p) == [i \in DOMAIN recs |-> recs[p[i]]]

\* C1: once the merge is over, the merged feature of a name holds the
\* variables of the first record of that name followed by the variables of
\* every later record of that name.
C1_MergedHoldsAllVariables ==
    mpc = "done" =>
        \A n \in DOMAIN merged : merged[n].Variables = VariablesOf(records, n)

\* C2: once the merge is over, the merged map has an entry for exactly the
\* feature names that have a record with variables, and no entry has an
\* empty variable list.
C2_OneEntryPerNameWithVariables ==
    mpc = "done" =>
        /\ DOMAIN merged = NamesWithVariables(records)
        /\ \A n \in DOMAIN merged :
              /\ merged[n].FeatureName = n
              /\ Len(merged[n].Variables) # 0

\* C2 witness: a finished merge of three records where one name has only a
\* record without variables and the other name has two records with them.
C2_Witness ==
    /\ mpc = "done"
    /\ Len(records) = 3
    /\ \E n \in MergeNames :
          /\ n \notin DOMAIN merged
          /\ \E i \in DOMAIN records : records[i].FeatureName = n
    /\ \E n \in DOMAIN merged :
          Cardinality({i \in DOMAIN records :
                          /\ records[i].FeatureName = n
                          /\ Len(records[i].Variables) # 0}) = 2

\* C3: once the merge is over, merging any reordering of the same records
\* gives, for every feature name, the same set of variable names.
C3_MergeOrderIndependent ==
    mpc = "done" =>
        \A p \in Permutations(DOMAIN records) :
            LET other == MergeAll(EmptyMap, PermuteSeq(records, p))
            IN /\ DOMAIN other = DOMAIN merged
               /\ \A n \in DOMAIN merged :
                     VarNameSet(other[n]) = VarNameSet(merged[n])

-----------------------------------------------------------------------------
(* Claims about the import run *)

PostsFor(f) ==
    {i \in DOMAIN calls : calls[i].op = "postFeature" /\ calls[i].feature = f}
PatchesFor(f) ==
    {i \in DOMAIN calls : calls[i].op = "patch" /\ calls[i].feature = f}
CreationsOf(k) ==
    {i \in DOMAIN calls : calls[i].op = "createProp" /\ calls[i].key = k}

\* the data keys of the customData filter items of the file
CustomDataKeys(items) ==
    {items[i].DataKey : i \in {j \in DOMAIN items : items[j].SubType = "customData"}}

RequiredKeys == UNION {CustomDataKeys(FiltersOf(input[n])) : n \in DOMAIN input}

\* C4: a feature whose POSTs are all answered 5xx gets at most two POSTs,
\* and after the second one createDevCycleFeature has returned an error.
C4_RetryBoundedToOne ==
    \A f \in DOMAIN features :
        (\A i \in PostsFor(f) : calls[i].status >= 500) =>
            /\ Cardinality(PostsFor(f)) <= 2
            /\ Cardinality(PostsFor(f)) = 2 =>
                  (f \in DOMAIN results /\ results[f] = "error")

\* C5: a feature whose POST was answered 409 has returned nil and has no
\* targeting-rule PATCH, whatever its audience filters are.
C5_ConflictIsSuccessWithoutRules ==
    \A i \in DOMAIN calls :
        (calls[i].op = "postFeature" /\ calls[i].status = 409) =>
            /\ calls[i].feature \in DOMAIN results
            /\ results[calls[i].feature] = "nil"
            /\ PatchesFor(calls[i].feature) = {}

\* C5 witness: a feature with audience filters was answered 409 and the run
\* went on to finish.
C5_Witness ==
    /\ pc = "done"
    /\ \E i \in DOMAIN calls :
          /\ calls[i].op = "postFeature"
          /\ calls[i].status = 409
          /\ Len(FiltersOf(features[calls[i].feature])) > 0
          /\ results[calls[i].feature] = "nil"

\* C6: no custom-property call (list or creation) comes after a feature
\* POST, the list call comes before every creation call, and every
\* targeting-rule PATCH of a feature comes after a POST of that feature
\* answered 201.
C6_CallsOrderedByStage ==
    /\ \A i, j \in DOMAIN calls :
          (calls[i].op \in {"listProps", "createProp"}
              /\ calls[j].op \in {"postFeature", "patch"}) => i < j
    /\ \A i, j \in DOMAIN calls :
          (calls[i].op = "listProps" /\ calls[j].op = "createProp") => i < j
    /\ \A j \in DOMAIN calls :
          calls[j].op = "patch" =>
              \E i \in 1..(j - 1) :
                  /\ calls[i].op = "postFeature"
                  /\ calls[i].feature = calls[j].feature
                  /\ calls[i].status = 201

\* C6 witness: a run that created a custom property, had a feature POST
\* retried after a 5xx and issued a PATCH.
C6_Witness ==
    /\ \E i \in DOMAIN calls : calls[i].op = "createProp"
    /\ \E i \in DOMAIN calls : calls[i].op = "postFeature" /\ calls[i].status = 500
    /\ \E i \in DOMAIN calls : calls[i].op = "patch" /\ calls[i].env = "production"

\* C7: every variation reference in the distribution of a PATCH payload is
\* an id the destination returned in the 201 response of that feature.
C7_DistributionUsesReturnedIds ==
    \A j \in DOMAIN calls :
        calls[j].op = "patch" =>
            LET dist == calls[j].payload.targets[1].distribution
                returned == UNION {calls[i].ids :
                                i \in {k \in PostsFor(calls[j].feature) : k < j}}
            IN \A d \in DOMAIN dist : dist[d].variation \in returned

\* the list call was answered 200 with a body that decodes
ListAnswered ==
    \E i \in DOMAIN calls :
        calls[i].op = "listProps" /\ calls[i].status = 200 /\ calls[i].decodes

\* C8 as claimed: once the reconciliation is over after an answered list
\* call, every required key has one creation call if it was not listed and
\* none if it was.
C8_OneCreationPerAbsentKey ==
    (ListAnswered /\ pc \notin {"start", "list", "create"}) =>
        \A k \in RequiredKeys :
            Cardinality(CreationsOf(k)) = IF k \in existingProps THEN 0 ELSE 1

\* C8 as amended: a creation call is only ever issued for a non-empty
\* required key that was not listed, at most once per key; and when the
\* reconciliation returns nil every such key has its one creation call.
C8_OneCreationPerAbsentKeyOnSuccess ==
    /\ \A i \in DOMAIN calls :
          calls[i].op = "createProp" =>
              /\ calls[i].key \in RequiredKeys \ existingProps
              /\ calls[i].key # <<>>
              /\ calls[i].payload.propertyKey = calls[i].key
              /\ Cardinality(CreationsOf(calls[i].key)) = 1
    /\ reconciled =>
          \A k \in RequiredKeys \ {<<>>} :
              Cardinality(CreationsOf(k)) = IF k \in existingProps THEN 0 ELSE 1

\* C8 witness: existing {plan, tier}, required {plan, Plan}: the
\* reconciliation returned nil after exactly one creation call, for Plan.
C8_Witness ==
    /\ reconciled
    /\ existingProps = {K_plan, K_tier}
    /\ RequiredKeys = {K_plan, K_Plan}
    /\ {calls[i].key : i \in {j \in DOMAIN calls : calls[j].op = "createProp"}}
          = {K_Plan}

\* C9: in a run that follows a run whose reconciliation returned nil, no
\* custom-property creation call is issued.
C9_SecondRunCreatesNothing ==
    prevReconciled => \A i \in DOMAIN calls : calls[i].op # "createProp"

\* C9 witness: the first run created the property Plan, and the second
\* run's reconciliation has been through its list call and returned nil.
C9_Witness ==
    /\ run = 2
    /\ prevReconciled
    /\ reconciled
    /\ K_Plan \in RequiredKeys
    /\ PropRecord(K_Plan, "Boolean") \in dvcProps
    /\ ListAnswered

AllDigits(s) == s # <<>> /\ \A i \in DOMAIN s : isDigit(s[i])

TwoNumericComponents(s) ==
    LET parts == Split(s, ".")
    IN Len(parts) = 2 /\ AllDigits(parts[1]) /\ AllDigits(parts[2])

\* what the claim says a version filter value is sent as
ClaimedVersionValue(v) ==
    IF v.kind = "string" /\ TwoNumericComponents(v.s)
    THEN Str(v.s \o <<".", "0">>)
    ELSE v

\* C10: in every PATCH payload, a value of an appVersion or platformVersion
\* filter item of the file is sent with ".0" appended when it is a string of
\* exactly two dot-separated numeric components, and unchanged otherwise.
C10_VersionValuesNormalized ==
    \A j \in DOMAIN calls :
        calls[j].op = "patch" =>
            LET orig == FiltersOf(input[calls[j].feature])
                sent == calls[j].payload.targets[1].audience.Filters.Filters
            IN /\ DOMAIN sent = DOMAIN orig
               /\ \A i \in DOMAIN orig :
                     orig[i].SubType \in {"appVersion", "platformVersion"} =>
                         /\ DOMAIN sent[i].Values = DOMAIN orig[i].Values
                         /\ \A k \in DOMAIN orig[i].Values :
                               sent[i].Values[k] = ClaimedVersionValue(orig[i].Values[k])

-----------------------------------------------------------------------------
(* C11, C12: the key normalizer *)

CountOf(s, c) == Cardinality({i \in DOMAIN s : s[i] = c})

\* letters only, a lower-case letter first, no two upper-case letters in a row
IsCamelCase(s) ==
    /\ s # <<>>
    /\ isLower(s[1])
    /\ \A i \in DOMAIN s : isLower(s[i]) \/ isUpper(s[i])
    /\ \A i \in 1..(Len(s) - 1) : ~(isUpper(s[i]) /\ isUpper(s[i + 1]))

\* every upper-case letter replaced by "-" and its lower-case letter
RECURSIVE Hyphenated(_)
Hyphenated(s) ==
    IF s = <<>> THEN <<>>
    ELSE (IF isUpper(Head(s)) THEN <<"-", toLowerRune(Head(s))>>
          ELSE <<Head(s)>>) \o Hyphenated(Tail(s))

\* C11: the key toKey returns holds only lower-case letters, digits, "-" and
\* "_"; it has one "_" for every "." of the name, so one section per
\* dot-separated part; a camelCase name gives its lower-case hyphenated form;
\* and the names of formatting_test.go give the keys expected there, among them
\* "discovery.newOrderTypeUi.ios" giving "discovery_new-order-type-ui_ios".
C11_KeyOfName ==
    tkPc \in {"key", "again"} =>
        /\ \A i \in DOMAIN tkKey :
              isLower(tkKey[i]) \/ isDigit(tkKey[i]) \/ tkKey[i] \in {"-", "_"}
        /\ CountOf(tkKey, "_") = CountOf(tkName, ".")
        /\ IsCamelCase(tkName) => tkKey = Hyphenated(tkName)
        /\ \A t \in testCases : tkName = t.input => tkKey = t.expected

\* a dotted name with a camelCase section has been normalized
C11_Witness ==
    /\ tkPc = "key"
    /\ \E t \in testCases : tkName = t.input /\ tkKey = t.expected
    /\ CountOf(tkKey, "_") = 2
    /\ CountOf(tkKey, "-") = 3

\* C12: toKey is idempotent: applied to a key it returned, also one that
\* holds "_", it returns that key again.
C12_KeyIdempotent ==
    tkPc = "again" => tkAgain = tkKey

-----------------------------------------------------------------------------
(* C13: a feature that fails *)

Failed == {f \in DOMAIN results : results[f] = "error"}

\* C13 as stated: when the import of a feature has failed, every other merged
\* feature has still been attempted by the time the run is over.
C13_OtherFeaturesStillAttempted ==
    (pc \in {"done", "exited"} /\ Failed # {}) => DOMAIN results = DOMAIN features

\* C13: the failure of one feature ends the whole run: the error is returned
\* at that feature, its call is the last call of the run, the features not
\* yet visited are never attempted, and the process exits with status 1.
C13_FailureEndsRun ==
    \A f \in Failed :
        /\ pc \in {"done", "exited"}
        /\ err = "failed to import feature"
        /\ f = cur
        /\ calls # <<>> /\ calls[Len(calls)].op \in {"postFeature", "patch"}
        /\ calls[Len(calls)].feature = f
        /\ \A g \in todo :
              g \notin DOMAIN results /\ PostsFor(g) = {} /\ PatchesFor(g) = {}
        /\ pc = "exited" => exitStatus = 1

\* a feature has failed while another was still to be visited
C13_Witness ==
    /\ Failed # {}
    /\ todo # {}
    /\ pc = "exited"

-----------------------------------------------------------------------------
(* C14: the exit status *)

InputError == file.readErr \/ file.parseErr \/ file.TLProject = <<>>

\* C14: the process exits with status zero only on full success: a file that
\* cannot be read or parsed, an empty tl_project and a failed import each end
\* with a non-zero status, and a run stopped by its input has issued no
\* remote call.
C14_ExitZeroOnlyOnFullSuccess ==
    pc = "exited" =>
        /\ exitStatus = 0 => (~InputError /\ err = "none")
        /\ InputError => calls = <<>>

-----------------------------------------------------------------------------
(* C15, C16, C17: what the payloads hold *)

RECURSIVE SumPercentages(_)
SumPercentages(distribution) ==
    IF distribution = <<>> THEN 0
    ELSE Head(distribution).percentage + SumPercentages(Tail(distribution))

\* C15: in every PATCH payload the percentages of the distribution sum to 1.0
\* (100 hundredths).
C15_DistributionSumsToOne ==
    \A i \in DOMAIN calls :
        calls[i].op = "patch" =>
            \A t \in DOMAIN calls[i].payload.targets :
                SumPercentages(calls[i].payload.targets[t].distribution) = 100

\* C16: in every feature-creation payload the key -> value map of each
\* variation has an entry for every variable of the payload's variables list.
C16_VariationsCoverVariables ==
    \A i \in DOMAIN calls :
        calls[i].op = "postFeature" =>
            LET p == calls[i].payload
            IN \A v \in DOMAIN p.Variations : \A x \in DOMAIN p.Variables :
                  p.Variables[x].Key \in DOMAIN p.Variations[v].Variables

\* the source variables of a feature, in the order the code meets them
FirstWithKey(tlVariables, k) ==
    tlVariables[CHOOSE i \in DOMAIN tlVariables :
                    /\ toKey(tlVariables[i].Name) = k
                    /\ \A j \in 1..(i - 1) : toKey(tlVariables[j].Name) # k]

\* C17: in every feature-creation payload no two entries of the variables list
\* have the same key, also when the names they come from differ, and the type
\* of an entry is that of the first source variable with its key.
C17_VariablesUniqueByKey ==
    \A i \in DOMAIN calls :
        calls[i].op = "postFeature" =>
            LET p == calls[i].payload
                src == AllVariables(input[calls[i].feature].Variations)
            IN /\ \A x, y \in DOMAIN p.Variables :
                     p.Variables[x].Key = p.Variables[y].Key => x = y
               /\ \A x \in DOMAIN p.Variables :
                     p.Variables[x].Type =
                        convertTaplyticsVarTypeToDevCycle(
                            FirstWithKey(src, p.Variables[x].Key).Type)

-----------------------------------------------------------------------------
(* C18, C19, C20: skipped features and targeting rules *)

\* no variation of the feature holds a variable
ZeroVariables(f) ==
    \A v \in DOMAIN input[f].Variations : input[f].Variations[v].Variables = <<>>

\* C18: a feature that resolves to zero variables is skipped without error:
\* no POST and no PATCH is ever issued for it, and once it has been visited
\* createDevCycleFeature has returned nil and the skip has been printed.
C18_ZeroVariablesSkipped ==
    \A f \in DOMAIN input :
        ZeroVariables(f) =>
            /\ PostsFor(f) = {}
            /\ PatchesFor(f) = {}
            /\ f \in DOMAIN results =>
                  /\ results[f] = "nil"
                  /\ Line("No variables to import for feature:", f) \in stdout

\* a feature without variables, but with audience filters, has been visited
\* and the run ended in success
C18_Witness ==
    /\ pc = "exited"
    /\ exitStatus = 0
    /\ \E f \in DOMAIN results :
          ZeroVariables(f) /\ Len(FiltersOf(input[f])) > 0

\* the PATCH calls issued for feature f, in the order they were issued
PatchSeq(f) == SelectSeq(calls, LAMBDA c : c.op = "patch" /\ c.feature = f)

Created(f) == \E i \in PostsFor(f) : calls[i].status = 201

\* a POST of the feature was answered 201 with a body that decodes
CreatedParsed(f) ==
    \E i \in PostsFor(f) : calls[i].status = 201 /\ calls[i].decodes

\* the PATCH calls of feature f are issued for development, staging and
\* production in that order, each only after the one before it was answered
\* 200; a PATCH answered otherwise is the last one and the feature returns an
\* error; when `created` holds and the feature has filter items, the
\* development PATCH has been issued by the time createDevCycleFeature has
\* returned, and all three when it returned nil; a feature without filter
\* items, or for which `created` does not hold, gets none.
PatchesAsClaimed(f, created) ==
    LET P == PatchSeq(f)
        E == <<"development", "staging", "production">>
        hasFilters == Len(FiltersOf(input[f])) > 0
    IN /\ Len(P) <= 3
       /\ \A k \in DOMAIN P :
             /\ P[k].env = E[k]
             /\ k < Len(P) => P[k].status = 200
       /\ P # <<>> => created /\ hasFilters
       /\ (P # <<>> /\ P[Len(P)].status # 200) =>
             f \in DOMAIN results /\ results[f] = "error"
       /\ (created /\ hasFilters /\ f \in DOMAIN results) =>
             /\ P # <<>>
             /\ results[f] = "nil" => (Len(P) = 3 /\ P[3].status = 200)

\* C19 as stated: every feature with filter items whose POST was answered 201
\* gets its PATCH calls, in the order of the environments, up to the first
\* one not answered 200.
C19_PatchesAfterEvery201 ==
    \A f \in DOMAIN input : PatchesAsClaimed(f, Created(f))

\* C19 as amended: the PATCH calls follow a POST answered 201 whose body
\* decodes, in the order of the environments, up to the first one not
\* answered 200; a feature whose 201 response does not decode gets no PATCH
\* and returns an error.
C19_PatchesInEnvironmentOrder ==
    \A f \in DOMAIN input :
        /\ PatchesAsClaimed(f, CreatedParsed(f))
        /\ (Created(f) /\ ~CreatedParsed(f)) =>
              /\ PatchSeq(f) = <<>>
              /\ f \in DOMAIN results /\ results[f] = "error"

\* the staging PATCH of a feature was refused after development was accepted
C19_Witness ==
    \E f \in DOMAIN results :
        /\ results[f] = "error"
        /\ Len(PatchSeq(f)) = 2
        /\ PatchSeq(f)[1].status = 200
        /\ PatchSeq(f)[2].status # 200

\* C20: building a targeting-rule payload leaves the feature record as it was
\* read, and the payloads built from one record for several environments are
\* equal.
C20_TranslationHasNoSideEffects ==
    /\ features = input
    /\ \A f \in DOMAIN input : \A k \in DOMAIN PatchSeq(f) :
          PatchSeq(f)[k].payload = PatchSeq(f)[1].payload

-----------------------------------------------------------------------------
(* C21: pass-through sub-types *)

\* what the claim says is kept of a filter item: sub-type, comparator, values
KeptOfSource(items) ==
    [i \in DOMAIN items |-> [subType |-> items[i].SubType,
                             comparator |-> items[i].Comparator,
                             values |-> items[i].Values]]
KeptOfTranslated(items) ==
    [i \in DOMAIN items |-> [subType |-> items[i].subType,
                             comparator |-> items[i].comparator,
                             values |-> items[i].values]]

\* C21: the translated filter has the operator of the source; its items have
\* the sub-types of the source items in the source's order; and the items of
\* the pass-through sub-type platform are in it with their comparator and
\* values unchanged, in their relative order.
C21_PassThroughKept ==
    cfPc = "converted" =>
        /\ dvcTargeting.operator = tlFilter.Operator
        /\ [i \in DOMAIN dvcTargeting.filters |-> dvcTargeting.filters[i].subType]
              = [i \in DOMAIN tlFilter.Filters |-> tlFilter.Filters[i].SubType]
        /\ SelectSeq(KeptOfTranslated(dvcTargeting.filters),
                     LAMBDA x : x.subType = "platform")
              = SelectSeq(KeptOfSource(tlFilter.Filters),
                          LAMBDA x : x.subType = "platform")

-----------------------------------------------------------------------------
(* C22, C23: re-issued operations and complete targeting *)

ListCalls == {i \in DOMAIN calls : calls[i].op = "listProps"}
TokenCalls == {i \in DOMAIN calls : calls[i].op = "oauthToken"}
CreatedKeys == {calls[i].key : i \in {j \in DOMAIN calls : calls[j].op = "createProp"}}
PatchesOf(f, e) == {i \in PatchesFor(f) : calls[i].env = e}

\* C22: within a run no remote operation is issued twice, whatever the
\* destination answers: the token is asked for and the property list is read
\* at most once, each custom-property key gets at most one creation POST,
\* each (feature, environment) pair at most one PATCH, and a feature POST is
\* followed by another POST of that feature only when it was answered 5xx.
C22_NoOperationReissued ==
    /\ Cardinality(TokenCalls) <= 1
    /\ Cardinality(ListCalls) <= 1
    /\ \A k \in CreatedKeys : Cardinality(CreationsOf(k)) = 1
    /\ \A f \in DOMAIN input :
          /\ \A e \in {"development", "staging", "production"} :
                Cardinality(PatchesOf(f, e)) <= 1
          /\ \A i, j \in PostsFor(f) : i < j => calls[i].status >= 500

\* a PATCH was refused after a property had been created, and the run is over
C22_Witness ==
    /\ pc = "exited"
    /\ \E i \in DOMAIN calls : calls[i].op = "createProp" /\ calls[i].status = 201
    /\ \E i \in DOMAIN calls : calls[i].op = "patch" /\ calls[i].status # 200

\* C23: whenever createDevCycleFeature has returned nil for a feature that has
\* an audience filter item and whose POST was answered 201, a PATCH for each
\* of development, staging and production was issued after that POST and
\* answered 200.
C23_SuccessMeansCompleteTargeting ==
    \A f \in DOMAIN results :
        (results[f] = "nil" /\ Len(FiltersOf(input[f])) > 0 /\ Created(f)) =>
            \A e \in {"development", "staging", "production"} :
                \E i \in PatchesOf(f, e) :
                    /\ calls[i].status = 200
                    /\ \A j \in PostsFor(f) : j < i

\* a feature with filter items was created on a retry, got its rules, and the
\* run ended in success
C23_Witness ==
    /\ pc = "exited"
    /\ exitStatus = 0
    /\ \E f \in DOMAIN results :
          /\ results[f] = "nil"
          /\ Len(FiltersOf(input[f])) > 0
          /\ Created(f)
          /\ Cardinality(PostsFor(f)) = 2

====
